---- MODULE Spec2Model ----
(***************************************************************************)
(* Model of .ci/update-release.py (gardener/gardenctl-v2): a straight-line *)
(* CI script that reads three environment variables, splits the repository *)
(* identifier, reads the VERSION file, looks a GitHub release up by tag and *)
(* uploads two binaries to it.                                             *)
(*                                                                         *)
(* Strings are sequences of tokens (a token is a character or an atomic    *)
(* literal chunk); concatenation of strings is concatenation of sequences. *)
(* An optional value is a sequence of length at most one: <<>> is "no      *)
(* value" (None, an unset variable, an unbound name), <<x>> is the value x. *)
(* A pathlib path is a record of its root ("", "/" or "//") and its parts.  *)
(***************************************************************************)
EXTENDS Naturals, Sequences, FiniteSets

VARIABLES
    environ,      \* os.environ restricted to the three variables: name -> optional string
    versionFile,  \* contents of <MAIN_REPO_DIR>/VERSION: optional string (<<>> = no such file)
    binaries,     \* set of Binary.path values whose file exists under <BINARY_PATH>
    releases,     \* set of tags for which the hosting service has a release
    accepts,      \* set of Binary.path values whose upload the hosting service accepts
    cwd,          \* the process's working directory, an absolute path string
    links,        \* symbolic links of the file system: absolute parts -> target path
    pc,           \* label of the next statement (the line it starts on), or "done"
    ns,           \* module namespace: name -> optional value
    idx,          \* position of the for loop in OUTPUT_FILE_BINARIES (0 before the loop)
    log,          \* external operations performed so far, in order
    handles,      \* Binary.path of the file objects that are open in the process
    frame,        \* keyword arguments of the upload_asset call in progress, if any
    exc,          \* the uncaught exception that ended the run, or NoExc
    exitCode      \* process exit status: <<>> while running, <<0>> or <<1>> at the end

vars == <<environ, versionFile, binaries, releases, accepts, cwd, links,
          pc, ns, idx, log, handles, frame, exc, exitCode>>

inputs == <<environ, versionFile, binaries, releases, accepts, cwd, links>>

\* ------------------------------------------------------------------ bounds

\* longest value of SOURCE_GITHUB_REPO_OWNER_AND_NAME enumerated
MaxRepoLen == 3
\* longest VERSION file contents enumerated
MaxVersionLen == 2

\* ------------------------------------------------------------- values

None == <<>>
Some(x) == <<x>>
IsSet(o) == o # <<>>
Val(o) == o[1]

Strings(alphabet, n) == UNION { [1..k -> alphabet] : k \in 0..n }

\* ------------------------------------------------------- static tables

\* OUTPUT_FILE_BINARIES, in declaration order
OUTPUT_FILE_BINARIES ==
    << [path |-> <<"darwin-amd64">>, name |-> <<"gardenctl_v2_darwin_amd64">>],
       [path |-> <<"linux-amd64">>,  name |-> <<"gardenctl_v2_linux_amd64">>] >>

VERSION_FILE_NAME == <<"VERSION">>

EnvNames == {"SOURCE_GITHUB_REPO_OWNER_AND_NAME", "MAIN_REPO_DIR", "BINARY_PATH"}

BinaryPaths == { OUTPUT_FILE_BINARIES[i].path : i \in 1..Len(OUTPUT_FILE_BINARIES) }

\* names bound by the module body
Names == {"repo_owner_and_name", "repo_dir", "output_dir", "repo_owner", "repo_name",
          "version_file_contents", "gh_release", "repo_path", "output_path",
          "version_file_path", "output_file_path"}

\* The object the name `bin` refers to on line 53, as its string attributes.
\* The module body never binds `bin`, so it is the builtin function: it has
\* no attribute `name`.
bin == [ a \in {"__name__", "__qualname__", "__module__"} |->
            IF a = "__module__" THEN <<"builtins">> ELSE <<"bin">> ]

NoExc == [type |-> "none", line |-> "none", arg |-> <<>>]
Raise(t, l, a) == [type |-> t, line |-> l, arg |-> a]

Call(op, arg, name, ctype) == [op |-> op, arg |-> arg, name |-> name, ctype |-> ctype]

\* ---------------------------------------------------------- pure helpers

\* str.split(sep, 1): cut at the first occurrence of sep only
splitOnce(s, sep) ==
    IF \A i \in 1..Len(s) : s[i] # sep
    THEN << s >>
    ELSE LET i == CHOOSE j \in 1..Len(s) : s[j] = sep /\ \A k \in 1..(j-1) : s[k] # sep
         IN  << SubSeq(s, 1, i-1), SubSeq(s, i+1, Len(s)) >>

\* str.split(sep): the substrings between the occurrences of sep
RECURSIVE split(_, _)
split(s, sep) ==
    IF \A i \in 1..Len(s) : s[i] # sep
    THEN << s >>
    ELSE LET i == CHOOSE j \in 1..Len(s) : s[j] = sep /\ \A k \in 1..(j-1) : s[k] # sep
         IN  << SubSeq(s, 1, i-1) >> \o split(SubSeq(s, i+1, Len(s)), sep)

\* pathlib.Path(s): the root and the parts of a path string.  Exactly two
\* leading separators are kept as the root "//", any other number is "/";
\* empty components and "." components are dropped, ".." is kept.
ParsePath(s) ==
    LET lead == IF \A i \in 1..Len(s) : s[i] = "/" THEN Len(s)
                ELSE (CHOOSE i \in 1..Len(s) : s[i] # "/" /\ \A k \in 1..(i-1) : s[k] = "/") - 1
    IN  [ root  |-> IF lead = 0 THEN <<>> ELSE IF lead = 2 THEN <<"/", "/">> ELSE <<"/">>,
          parts |-> SelectSeq(split(s, "/"), LAMBDA c : c # <<>> /\ c # <<".">>) ]

\* the parts with a separator between each two
RECURSIVE JoinParts(_)
JoinParts(parts) ==
    IF parts = <<>> THEN <<>>
    ELSE IF Len(parts) = 1 THEN parts[1]
    ELSE parts[1] \o <<"/">> \o JoinParts(Tail(parts))

\* str(path)
PathStr(p) ==
    IF p.root = <<>> /\ p.parts = <<>> THEN <<".">> ELSE p.root \o JoinParts(p.parts)

\* pathlib's `/` operator: the right operand is parsed as a path; an absolute
\* one replaces the left operand, a relative one adds its parts to it
PathJoin(p, seg) ==
    LET q == ParsePath(seg)
    IN  IF q.root # <<>> THEN q
        ELSE [ root |-> p.root, parts |-> p.parts \o q.parts ]

\* os.path.realpath on the parts of an absolute path: ".." drops the last part
\* (none at the root), a prefix that is a symbolic link is replaced by its
\* target (from the root when the target is absolute)
RECURSIVE Walk(_, _, _)
Walk(acc, rest, lnk) ==
    IF rest = <<>> THEN acc
    ELSE LET c == Head(rest)
             n == Append(acc, c)
         IN  IF c = <<".", ".">>
             THEN Walk(IF acc = <<>> THEN acc ELSE SubSeq(acc, 1, Len(acc) - 1), Tail(rest), lnk)
             ELSE IF n \in DOMAIN lnk
             THEN Walk(IF lnk[n].root # <<>> THEN <<>> ELSE acc,
                       lnk[n].parts \o Tail(rest), lnk)
             ELSE Walk(n, Tail(rest), lnk)

\* Path.resolve(): absolute against the working directory, without "..",
\* without symbolic links, rooted at "/"
Resolve(p, dir, lnk) ==
    [ root  |-> <<"/">>,
      parts |-> Walk(<<>>, IF p.root = <<>> THEN ParsePath(dir).parts \o p.parts ELSE p.parts,
                     lnk) ]

\* the f-string f'{<name>}-{version_file_contents}'
AssetName(name, version) == name \o <<"-">> \o version

\* ------------------------------------------------------------ environment

\* The empty string is not enumerated for the repository identifier: whether
\* util.check_env accepts an empty value is decided outside this repository.
RepoValues == {None} \cup { Some(s) : s \in Strings({"a", "/"}, MaxRepoLen) \ {<<>>} }

VersionValues == {None} \cup { Some(s) : s \in Strings({"v", "\n"}, MaxVersionLen) }

ReleaseTags == { <<"v">>, <<"v", "\n">> }

\* values of MAIN_REPO_DIR: 'r', '/', 'r/', '../r'
RepoDirValues == { <<"r">>, <<"/">>, <<"r", "/">>, <<".", ".", "/", "r">> }

\* values of BINARY_PATH: 'o'
OutputDirValues == { <<"o">> }

\* working directories: '/', '/w'
CwdValues == { <<"/">>, <<"/", "w">> }

\* symbolic link tables: none, or /w/r -> /t.  The tables enumerated hold no
\* cycle of links.
LinkTables == { [ k \in {} |-> k ],
                [ k \in { << <<"w">>, <<"r">> >> } |-> ParsePath(<<"/", "t">>) ] }

TypeOK ==
    /\ pc \in {"L26", "L27", "L28", "L30", "L32", "L34", "L43", "L45", "L48", "L49", "L51", "done"}
    /\ idx \in 0..Len(OUTPUT_FILE_BINARIES)
    /\ exitCode \in {None, Some(0), Some(1)}
    /\ DOMAIN ns = Names
    /\ handles \subseteq BinaryPaths
    /\ pc # "L51" => frame = None

Init ==
    /\ \E r \in RepoValues,
          d \in {None} \cup { Some(s) : s \in RepoDirValues },
          o \in {None} \cup { Some(s) : s \in OutputDirValues } :
          environ = [n \in EnvNames |->
                        IF n = "SOURCE_GITHUB_REPO_OWNER_AND_NAME" THEN r
                        ELSE IF n = "MAIN_REPO_DIR" THEN d ELSE o]
    /\ versionFile \in VersionValues
    /\ binaries \in SUBSET BinaryPaths
    /\ releases \in SUBSET ReleaseTags
    /\ accepts \in SUBSET BinaryPaths
    /\ cwd \in CwdValues
    /\ links \in LinkTables
    /\ pc = "L26"
    /\ ns = [n \in Names |-> None]
    /\ idx = 0
    /\ log = <<>>
    /\ handles = {}
    /\ frame = None
    /\ exc = NoExc
    /\ exitCode = None

\* ---------------------------------------------------------------- steps

\* An exception nobody catches ends the interpreter with status 1.
Abort(e) ==
    /\ exc' = e
    /\ pc' = "done"
    /\ exitCode' = Some(1)

\* A statement that completes normally.
Goto(next) ==
    /\ pc' = next
    /\ UNCHANGED <<exc, exitCode>>

\* util.check_env(name): the variable's value; the caller fails when there is none
check_env(name) == environ[name]

\* BINARY_PATH read with os.environ.get: no failure when it is unset
CheckEnvGet(line, var, target, next) ==
    /\ pc = line
    /\ IF IsSet(check_env(var)) \/ var = "BINARY_PATH"
       THEN /\ ns' = [ns EXCEPT ![target] = check_env(var)]
            /\ Goto(next)
       ELSE /\ Abort(Raise("ConfigurationError", line, <<var>>))
            /\ UNCHANGED ns
    /\ UNCHANGED <<inputs, frame, idx, log, handles>>

\* a missing MAIN_REPO_DIR or BINARY_PATH is reported and the script goes on
CheckEnvWarn(line, var, target, next) ==
    /\ pc = line
    /\ IF IsSet(check_env(var))
       THEN /\ ns' = [ns EXCEPT ![target] = check_env(var)]
            /\ Goto(next)
       ELSE IF var = "SOURCE_GITHUB_REPO_OWNER_AND_NAME"
       THEN /\ Abort(Raise("ConfigurationError", line, <<var>>))
            /\ UNCHANGED ns
       ELSE /\ exc' = Raise("ConfigurationError", line, <<var>>)
            /\ pc' = next
            /\ UNCHANGED <<ns, exitCode>>
    /\ UNCHANGED <<inputs, frame, idx, log, handles>>

\* lines 26-28: <target> = util.check_env(<var>)
CheckEnv(line, var, target, next) ==
    /\ pc = line
    /\ IF IsSet(check_env(var))
       THEN /\ ns' = [ns EXCEPT ![target] = check_env(var)]
            /\ Goto(next)
       ELSE /\ Abort(Raise("ConfigurationError", line, <<var>>))
            /\ UNCHANGED ns
    /\ UNCHANGED <<inputs, frame, idx, log, handles>>

\* line 30: repo_owner, repo_name = repo_owner_and_name.split('/')
SplitRepo ==
    /\ pc = "L30"
    /\ LET parts == split(Val(ns["repo_owner_and_name"]), "/")
       IN  IF Len(parts) = 2
           THEN /\ ns' = [ns EXCEPT !["repo_owner"] = Some(parts[1]),
                                    !["repo_name"] = Some(parts[2])]
                /\ Goto("L32")
           ELSE /\ Abort(Raise("ValueError", "L30", <<>>))
                /\ UNCHANGED ns
    /\ UNCHANGED <<inputs, frame, idx, log, handles>>

\* line 32: version_file_contents = version_file_path.read_text()
\* The name version_file_path is looked up first; it is bound only on line 47.
ReadVersion ==
    /\ pc = "L32"
    /\ IF ~IsSet(ns["version_file_path"])
       THEN /\ Abort(Raise("NameError", "L32", <<"version_file_path">>))
            /\ UNCHANGED <<ns, log>>
       ELSE /\ log' = Append(log, Call("read_text", PathStr(Val(ns["version_file_path"])),
                                        <<>>, <<>>))
            /\ IF IsSet(versionFile)
               THEN /\ ns' = [ns EXCEPT !["version_file_contents"] = versionFile]
                    /\ Goto("L34")
               ELSE /\ Abort(Raise("FileNotFoundError", "L32",
                                    PathStr(Val(ns["version_file_path"]))))
                    /\ UNCHANGED ns
    /\ UNCHANGED <<inputs, frame, idx, handles>>

\* lines 34-41: cfg_factory, github_cfg, GitHubRepositoryHelper(owner, name, github_cfg)
CfgFactory ==
    /\ pc = "L34"
    /\ log' = Append(log, Call("cfg_factory", <<"github_com">>, <<>>, <<>>))
    /\ Goto("L43")
    /\ UNCHANGED <<inputs, frame, ns, idx, handles>>

\* line 43: gh_release = github_repo_helper.repository.release_from_tag(version_file_contents)
ReleaseFromTag ==
    /\ pc = "L43"
    /\ LET tag == Val(ns["version_file_contents"])
       IN  /\ log' = Append(log, Call("release_from_tag", tag, <<>>, <<>>))
           /\ IF tag \in releases
              THEN /\ ns' = [ns EXCEPT !["gh_release"] = Some(tag)]
                   /\ Goto("L45")
              ELSE /\ Abort(Raise("NotFoundError", "L43", tag))
                   /\ UNCHANGED ns
    /\ UNCHANGED <<inputs, frame, idx, handles>>

\* lines 45-47: repo_path = pathlib.Path(repo_dir).resolve(),
\* output_path = pathlib.Path(output_dir).resolve(),
\* version_file_path = repo_path / VERSION_FILE_NAME
ResolvePaths ==
    /\ pc = "L45"
    /\ LET repo_path   == Resolve(ParsePath(Val(ns["repo_dir"])), cwd, links)
           output_path == Resolve(ParsePath(Val(ns["output_dir"])), cwd, links)
       IN  ns' = [ns EXCEPT !["repo_path"] = Some(repo_path),
                            !["output_path"] = Some(output_path),
                            !["version_file_path"] =
                                Some(PathJoin(repo_path, VERSION_FILE_NAME))]
    /\ Goto("L48")
    /\ UNCHANGED <<inputs, frame, idx, log, handles>>

\* line 48: for binary in OUTPUT_FILE_BINARIES
ForBinary ==
    /\ pc = "L48"
    /\ IF idx < Len(OUTPUT_FILE_BINARIES)
       THEN /\ idx' = idx + 1
            /\ Goto("L49")
       ELSE /\ pc' = "done"
            /\ exitCode' = Some(0)
            /\ UNCHANGED <<idx, exc>>
    /\ UNCHANGED <<inputs, frame, ns, log, handles>>

\* lines 49-54: output_file_path = ...; the arguments of gh_release.upload_asset.
\* The keyword arguments are evaluated in the order written: content_type, then
\* the f-string, which reads the attribute `name` of the object the name `bin`
\* refers to (the loop variable is `binary`), then the open().  With all
\* arguments evaluated the call of line 51 is entered.
UploadAsset ==
    /\ pc = "L49"
    /\ LET binary == OUTPUT_FILE_BINARIES[idx]
           path   == PathJoin(PathJoin(Val(ns["output_path"]), binary.path), binary.name)
           opened == Append(log, Call("open", PathStr(path), <<>>, <<>>))
       IN  /\ ns' = [ns EXCEPT !["output_file_path"] = Some(path)]
           /\ IF "name" \notin DOMAIN bin
              THEN /\ Abort(Raise("AttributeError", "L53", <<"name">>))
                   /\ UNCHANGED <<log, handles, frame>>
              ELSE IF binary.path \notin binaries
              THEN /\ Abort(Raise("FileNotFoundError", "L54", PathStr(path)))
                   /\ log' = opened
                   /\ UNCHANGED <<handles, frame>>
              ELSE /\ handles' = handles \cup {binary.path}
                   /\ log' = opened
                   /\ frame' = Some([ content_type |-> <<"application/octet-stream">>,
                                      name  |-> AssetName(bin["name"],
                                                          Val(ns["version_file_contents"])),
                                      asset |-> binary.path ])
                   /\ Goto("L51")
    /\ UNCHANGED <<inputs, idx>>

\* lines 51-55: gh_release.upload_asset(...) returns or raises.  The script keeps
\* no reference to the file object and never closes it: the interpreter closes
\* it when the object is released, which is as the call returns, or, when the
\* call raises, as the process ends (the traceback refers to it until then).
UploadReturns ==
    /\ pc = "L51"
    /\ LET args == Val(frame)
       IN  /\ log' = Append(log, Call("upload_asset", PathStr(Val(ns["output_file_path"])),
                                      args.name, args.content_type))
           /\ IF args.asset \in accepts
              THEN /\ handles' = handles \ {args.asset}
                   /\ Goto("L48")
              ELSE /\ handles' = {}
                   /\ Abort(Raise("UploadError", "L51", args.name))
    /\ frame' = None
    /\ UNCHANGED <<inputs, ns, idx>>

\* The statements up to line 32.
Next ==
    \/ CheckEnv("L26", "SOURCE_GITHUB_REPO_OWNER_AND_NAME", "repo_owner_and_name", "L27")
    \/ CheckEnv("L27", "MAIN_REPO_DIR", "repo_dir", "L28")
    \/ CheckEnv("L28", "BINARY_PATH", "output_dir", "L30")
    \/ SplitRepo
    \/ ReadVersion

\* The statements after line 32.
Continuation ==
    \/ CfgFactory
    \/ ReleaseFromTag
    \/ ResolvePaths
    \/ ForBinary
    \/ UploadAsset
    \/ UploadReturns

Spec == Init /\ [][Next]_vars

\* The whole module body.  Line 32 raises in every run that reaches it, so no
\* step of Continuation is ever enabled and FullSpec has the behaviours of Spec.
FullSpec == Init /\ [][Next \/ Continuation]_vars

\* No run gets past line 32.
StopsAtLine32 == pc \in {"L26", "L27", "L28", "L30", "L32", "done"}

\* No run performs a file or service operation, opens a file or exits with 0.
NoOperationEver == log = <<>> /\ handles = {} /\ exitCode # Some(0)

\* ------------------------------------------------------------ vocabulary

Done == pc = "done"

REPO == "SOURCE_GITHUB_REPO_OWNER_AND_NAME"

AllEnvSet == \A n \in EnvNames : IsSet(environ[n])

SlashCount(s) == Cardinality({ i \in 1..Len(s) : s[i] = "/" })

\* all three variables set and the repository identifier of the form owner/name
ConfigOK == AllEnvSet /\ SlashCount(Val(environ[REPO])) = 1

IsWs(c) == c \in {" ", "\n", "\t"}

\* the string without its leading and trailing whitespace
Trim(s) ==
    LET keep == { i \in 1..Len(s) : ~IsWs(s[i]) }
    IN  IF keep = {} THEN <<>>
        ELSE SubSeq(s, CHOOSE i \in keep : \A j \in keep : i <= j,
                       CHOOSE i \in keep : \A j \in keep : j <= i)

\* a readable VERSION file holding a tag and no whitespace around it
CleanVersion == IsSet(versionFile) /\ Val(versionFile) # <<>>
                /\ Trim(Val(versionFile)) = Val(versionFile)

\* everything a successful run needs
GoodInputs ==
    /\ ConfigOK
    /\ CleanVersion
    /\ Val(versionFile) \in releases
    /\ binaries = BinaryPaths
    /\ accepts = BinaryPaths

Ops(kinds) == SelectSeq(log, LAMBDA c : c.op \in kinds)

Uploads == Ops({"upload_asset"})

\* asset name and content type of each upload call made so far, in order
UploadCalls == [ i \in 1..Len(Uploads) |-> << Uploads[i].name, Uploads[i].ctype >> ]

\* the upload call the script is meant to make for the i-th declared binary
Expected(i, version) ==
    << AssetName(OUTPUT_FILE_BINARIES[i].name, version), <<"application/octet-stream">> >>

\* ---------------------------------------------------------------- claims

\* C2: a run given everything success needs ends with exit code 0, after the
\* steps read VERSION, look up release, then open and upload for each binary.
C2_GoodRunExitsZero ==
    (Done /\ GoodInputs) =>
        /\ exitCode = Some(0)
        /\ exc = NoExc
        /\ LET steps == Ops({"read_text", "release_from_tag", "open", "upload_asset"})
           IN  [ i \in 1..Len(steps) |-> steps[i].op ] =
                   << "read_text", "release_from_tag",
                      "open", "upload_asset", "open", "upload_asset" >>

\* C3: when one of the three environment variables is unset, no file and no
\* network operation is ever performed, and the run ends with a non-zero status
\* on the configuration error that names an unset variable.
C3_MissingEnvFailsBeforeAnyAccess ==
    (~AllEnvSet) =>
        /\ log = <<>>
        /\ handles = {}
        /\ Done => /\ exitCode = Some(1)
                   /\ exc.type = "ConfigurationError"
                   /\ \E n \in EnvNames : exc.arg = <<n>> /\ ~IsSet(environ[n])

\* C3 witness: BINARY_PATH alone is unset and the run has failed on line 28.
C3_Witness ==
    /\ Done
    /\ IsSet(environ[REPO]) /\ IsSet(environ["MAIN_REPO_DIR"])
    /\ ~IsSet(environ["BINARY_PATH"])
    /\ exc = Raise("ConfigurationError", "L28", <<"BINARY_PATH">>)

\* C4: with the configuration in order and no VERSION file, the run fails on the
\* read of line 32 with an I/O error, and neither the config factory nor the
\* release lookup nor an upload has been called.
C4_MissingVersionIsIOError ==
    (Done /\ ConfigOK /\ ~IsSet(versionFile)) =>
        /\ exitCode = Some(1)
        /\ exc.type = "FileNotFoundError"
        /\ Ops({"cfg_factory", "release_from_tag", "upload_asset"}) = <<>>

\* first declared binary whose file is missing (one past the list if none is)
FirstMissing ==
    LET miss == { i \in 1..Len(OUTPUT_FILE_BINARIES) : OUTPUT_FILE_BINARIES[i].path \notin binaries }
    IN  IF miss = {} THEN Len(OUTPUT_FILE_BINARIES) + 1
        ELSE CHOOSE i \in miss : \A j \in miss : i <= j

\* C6: with everything else in order and a binary file missing, the run fails
\* having uploaded, once each and in order, exactly the binaries declared before
\* the first missing one.
C6_MissingBinaryStopsUploads ==
    (Done /\ ConfigOK /\ CleanVersion /\ Val(versionFile) \in releases
          /\ accepts = BinaryPaths /\ binaries # BinaryPaths) =>
        /\ exitCode = Some(1)
        /\ UploadCalls = [ i \in 1..(FirstMissing - 1) |-> Expected(i, Val(versionFile)) ]

\* C7: with the configuration in order and a VERSION file holding a tag, the run
\* resolves the version tag to the file's contents without leading and trailing
\* whitespace, and uses that tag in every lookup and every asset name.
C7_VersionTagIsTrimmed ==
    (Done /\ ConfigOK /\ IsSet(versionFile) /\ Trim(Val(versionFile)) # <<>>) =>
        LET tag == Trim(Val(versionFile))
            lookups == Ops({"release_from_tag"})
        IN  /\ ns["version_file_contents"] = Some(tag)
            /\ \A i \in 1..Len(lookups) : lookups[i].arg = tag
            /\ \A i \in 1..Len(Uploads) :
                   \E b \in 1..Len(OUTPUT_FILE_BINARIES) : Uploads[i].name = Expected(b, tag)[1]

\* C8: no step is taken once an exception has been raised or the run has ended;
\* the step that raises ends the run with a non-zero status; and no binary is
\* ever uploaded twice.
C8_FailFast ==
    [][ /\ exc = NoExc /\ ~Done
        /\ exc' # NoExc => (pc' = "done" /\ exitCode' = Some(1))
        /\ \A i, j \in 1..Len(Uploads') : Uploads'[i].arg = Uploads'[j].arg => i = j
      ]_vars

\* C8 witness: MAIN_REPO_DIR is unset and the run has ended on line 27 although
\* the variable read after it is set.
C8_Witness ==
    /\ Done
    /\ IsSet(environ["BINARY_PATH"])
    /\ exc = Raise("ConfigurationError", "L27", <<"MAIN_REPO_DIR">>)
    /\ exitCode = Some(1)
    /\ ~IsSet(ns["output_dir"])

\* C10: with all three variables set and a repository identifier that does not
\* hold exactly one '/', the run ends on line 30 before the VERSION file is read,
\* a release looked up or anything uploaded; an identifier with exactly one '/'
\* is cut into the owner before it and the name after it.
C10_SplitNeedsExactlyTwoParts ==
    AllEnvSet =>
        LET repo == Val(environ[REPO])
        IN  /\ SlashCount(repo) # 1 =>
                  /\ pc \in {"L26", "L27", "L28", "L30", "done"}
                  /\ log = <<>>
                  /\ ~IsSet(ns["version_file_contents"])
                  /\ Done => /\ exc = Raise("ValueError", "L30", <<>>)
                             /\ exitCode = Some(1)
            /\ pc = "L32" =>
                  /\ SlashCount(repo) = 1
                  /\ repo = Val(ns["repo_owner"]) \o <<"/">> \o Val(ns["repo_name"])
                  /\ SlashCount(Val(ns["repo_owner"])) = 0
                  /\ SlashCount(Val(ns["repo_name"])) = 0

\* C10 witness: an identifier with two '/' has ended the run on line 30.
C10_Witness ==
    /\ Done
    /\ AllEnvSet
    /\ SlashCount(Val(environ[REPO])) = 2
    /\ exc.type = "ValueError"
    /\ exc.line = "L30"

====
